---- MODULE Spec2Model ----
(***************************************************************************)
(* Model of apps/docker-provider/src/index.ts: DockerTaskOperations.       *)
(*                                                                         *)
(* Every top-level operation (index, create, restore, delete, get) is an   *)
(* async function.  JavaScript runs each of them to completion between two *)
(* awaits, so an action of this model is one such synchronous segment: it  *)
(* starts when the awaited promise settles and ends where the next command *)
(* has been spawned and is awaited.  Calls interleave only at awaits; the   *)
(* resumption of `await this.#initialize()` is a step of its own, so the   *)
(* model allows every interleaving the language permits.                   *)
(***************************************************************************)
EXTENDS Integers, Sequences, FiniteSets, TLC

(* ---- bounds of the model ---- *)
NumCalls == 2                       \* calls in flight at the same time
MaxLogLines == 2                    \* lines of a `docker logs` snapshot
MaxIdLen == 2                       \* characters of a run id / short code

Calls == 1..NumCalls

(* ---- inputs ---- *)
\* strings are sequences of characters
Ids == { <<"r", "9">> }
\* a line of container output: noise, or "http server listening on port "
\* followed by the given characters (digits, possibly none)
DigitStrings == { <<>>, <<0>>, <<0, 0>>, <<4, 0>> }
LogLines == { [listening |-> FALSE, digits |-> <<>>] }
              \cup { [listening |-> TRUE, digits |-> d] : d \in DigitStrings }
LogSnapshots == UNION { [1..n -> LogLines] : n \in 0..MaxLogLines }
\* Math.random(), a number in [0, 1), in hundredths
RandomUnit == { 0, 99 }

\* identifiers and logs the pure functions are applied to
IdChars == { "r", "-", "9" }
Suffixes == UNION { [1..n -> IdChars] : n \in 0..MaxIdLen }
ScanDigits == DigitStrings \cup { <<7>>, <<0, 7>>, <<8, 0, 8, 0>> }
ScanLines == { [listening |-> FALSE, digits |-> <<>>] }
               \cup { [listening |-> TRUE, digits |-> d] : d \in ScanDigits }
ScanLogs == UNION { [1..n -> ScanLines] : n \in 0..MaxLogLines }

Ops == { "index", "create", "restore", "delete", "get" }
\* the commands the operations spawn, and the docker commands that inspect,
\* stop or remove a container
Commands == { "criu", "checkpoint", "run", "unpause", "start", "logs", "exec",
              "inspect", "stop", "kill", "rm" }

NaN == -1                           \* Number(undefined)
NoReturn == [canCheckpoint |-> FALSE, willSimulate |-> FALSE, set |-> FALSE]
NoRequest == [container |-> <<>>, port |-> 0, type |-> "none", cause |-> "none"]
NoError == [type |-> "none", retries |-> 0]
NoNaming == [state |-> "idle", ka |-> "run", a |-> <<>>, kb |-> "run", b |-> <<>>,
             na |-> <<>>, nb |-> <<>>]
NoScan == [state |-> "idle", stdout |-> <<>>, raised |-> FALSE, port |-> 0]

VARIABLES
  initialized,      \* #initialized
  canCheckpoint,    \* #canCheckpoint
  forceSimulate,    \* opts.forceSimulate
  criuRuns,         \* number of `criu --version` commands spawned so far
  checkpointRuns,   \* number of `docker checkpoint` commands spawned so far
  fullProbes,       \* number of probes in which both commands succeeded
  op,               \* per call: the operation called, "none" before the call
  runId,            \* per call: opts.runId / opts.shortCode
  containerName,    \* per call: the local containerName
  pc,               \* per call: the await the call is suspended at
  initRet,          \* per call: what its `await this.#initialize()` returned
  probe,            \* per call: how its #initialize went
  issued,           \* per call: number of times it spawned each command
  runtime,          \* per call: state of restore's runtime command
  port,             \* per call: port returned by #getHttpServerPort
  retryCount,       \* per call: retryCount of the current #runLifecycleCommand
  delivered,        \* per call: lifecycle requests that succeeded
  sleeps,           \* per call: backoff sleeps started
  delay,            \* per call: duration of the pending setTimeout, else 0
  hookReq,          \* per call: the last lifecycle request issued
  hookError,        \* per call: terminal error of #runLifecycleCommand
  matches,          \* per call: "null" or "found", "unread" before the match
  logged,           \* per call: "Index failed:" / "Create failed:" was logged
  runOutcome,       \* per call: how its `docker run` ended
  diagnostic,       \* per call: the keys of the object logged with the failure
  result,           \* per call: "pending", "returned" or "raised"
  error,            \* per call: message of the error raised to the caller
  naming,           \* two identifiers and the container names derived from them
  scan              \* a log and what #getHttpServerPort makes of it

vars == << initialized, canCheckpoint, forceSimulate, criuRuns, checkpointRuns,
           fullProbes, op, runId, containerName,
           pc, initRet,
           probe, issued, runtime, port, retryCount, delivered, sleeps, delay,
           hookReq, hookError, matches, logged, runOutcome, diagnostic, result, error,
           naming, scan >>

globals == << initialized, canCheckpoint >>
counters == << criuRuns, checkpointRuns, fullProbes >>
pureVars == << naming, scan >>
runVars == << logged, runOutcome, diagnostic >>
hookVars == << port, retryCount, delivered, sleeps, delay, hookReq, hookError,
              matches >>

(* ---- pure functions ---- *)
RECURSIVE Pow(_, _)
Pow(b, e) == IF e = 0 THEN 1 ELSE b * Pow(b, e - 1)

Min(a, b) == IF a < b THEN a ELSE b

\* exponentialBackoff(retryCount, exponential, minDelay, maxDelay, jitter),
\* with the value Math.random() returns passed in; whole milliseconds
exponentialBackoff(rc, exponential, minDelay, maxDelay, jitter, random) ==
  LET delayMs == Min(Pow(exponential, rc) * minDelay, maxDelay)
      jitterValue == (random * jitter) \div 100
  IN delayMs + jitterValue

getIndexContainerName(suffix) ==
  <<"t","a","s","k","-","i","n","d","e","x","-">> \o suffix

\* the prefix of the other kind pasted in
getRunContainerNameIndexPrefix(suffix) ==
  <<"t","a","s","k","-","i","n","d","e","x","-">> \o suffix

getRunContainerName(suffix) ==
  <<"t","a","s","k","-","r","u","n","-">> \o suffix

\* Number("<digits>")
RECURSIVE Number(_)
Number(digits) ==
  IF digits = <<>> THEN 0
  ELSE 10 * Number(SubSeq(digits, 1, Len(digits) - 1)) + digits[Len(digits)]

\* the last match taken in place of the first
LastMatch(stdout) ==
  LET hits == { i \in 1..Len(stdout) :
                  stdout[i].listening /\ stdout[i].digits # <<>> }
  IN IF hits = {} THEN 0
     ELSE CHOOSE i \in hits : \A j \in hits : i >= j

\* stdout.match(/http server listening on port (?<port>[0-9]+)/): the index
\* of the first line that matches, 0 when there is none
FirstMatch(stdout) ==
  LET hits == { i \in 1..Len(stdout) :
                  stdout[i].listening /\ stdout[i].digits # <<>> }
  IN IF hits = {} THEN 0
     ELSE CHOOSE i \in hits : \A j \in hits : i <= j

\* logs.stdout.match(...): null, or a match
matchOf(stdout) == IF FirstMatch(stdout) = 0 THEN "null" ELSE "found"

\* const port = Number(matches?.groups?.port)
ExtractPort(stdout) ==
  IF FirstMatch(stdout) = 0 THEN NaN
  ELSE Number(stdout[FirstMatch(stdout)].digits)

\* if (!port) throw
PortMissing(p) == p = NaN \/ p = 0

\* willSimulate computed with "and" in place of "or"
getInitializeReturnAnd(can, force) ==
  [canCheckpoint |-> can, willSimulate |-> (~can) /\ force, set |-> TRUE]

\* #getHttpServerPort applied to the output of `docker logs`
getHttpServerPort(stdout) ==
  IF PortMissing(ExtractPort(stdout))
  THEN [raised |-> TRUE, port |-> 0]
  ELSE [raised |-> FALSE, port |-> ExtractPort(stdout)]

\* the container name of either kind
containerNameOf(kind, suffix) ==
  IF kind = "index" THEN getIndexContainerName(suffix)
  ELSE getRunContainerName(suffix)

\* #getInitializeReturn()
getInitializeReturn(can, force) ==
  [canCheckpoint |-> can, willSimulate |-> (~can) \/ force, set |-> TRUE]

\* the branch of restore taken on #canCheckpoint alone
restoreSimulatesIgnoresForce(can, force) == ~can

\* restore: if (!this.#canCheckpoint || this.opts.forceSimulate)
restoreSimulates(can, force) == (~can) \/ force

\* the two branches of restore exchanged
restoreCommandSwapped(simulate) == IF simulate THEN "start" ELSE "unpause"

\* the runtime command restore issues on each branch
restoreCommand(simulate) == IF simulate THEN "unpause" ELSE "start"

\* the exit code of the runtime command left unchecked
restoreContinuesUnchecked(outcome) == TRUE

\* restore after its runtime command settled: "ok" is exit code 0,
\* "nonzero" a result with another exit code, "rejected" a rejected promise
restoreContinues(outcome) == outcome = "ok"

\* one retry too many
shouldRetryOffByOne(type, rc) == type = "postStart" /\ rc <= 6

\* the retry not restricted to postStart
shouldRetryAnyType(type, rc) == rc < 6

\* #runLifecycleCommand's catch: if (type === "postStart" && retryCount < 6)
shouldRetry(type, rc) == type = "postStart" /\ rc < 6

\* `${type} command failed after ${retryCount - 1} retries`
finalError(type, rc) == [type |-> type, retries |-> rc - 1]

\* the catch block logging the error without throwing again
sendPostStartSwallows(failed) == FALSE
sendPreStopSwallows(failed) == FALSE

\* #sendPostStart / #sendPreStop: catch (error) { ...; throw new Error(...) }
sendPostStartRaises(failed) == failed
sendPreStopRaises(failed) == failed

hookType(o) == IF o = "restore" THEN "postStart" ELSE "preStop"
hookCause(o) == IF o = "restore" THEN "restore" ELSE "terminate"
sendRaises(o, failed) ==
  IF o = "restore" THEN sendPostStartRaises(failed) ELSE sendPreStopRaises(failed)
sendMessage(o) ==
  IF o = "restore" THEN "postStart command failed" ELSE "preStop command failed"

(* ---- state ---- *)
InitProgram ==
  /\ initialized = FALSE
  /\ canCheckpoint = FALSE
  /\ forceSimulate \in BOOLEAN
  /\ criuRuns = 0
  /\ checkpointRuns = 0
  /\ fullProbes = 0
  /\ op = [p \in Calls |-> "none"]
  /\ runId = [p \in Calls |-> <<>>]
  /\ containerName = [p \in Calls |-> <<>>]
  /\ pc = [p \in Calls |-> "idle"]
  /\ initRet = [p \in Calls |-> NoReturn]
  /\ probe = [p \in Calls |-> "none"]
  /\ issued = [p \in Calls |-> [c \in Commands |-> 0]]
  /\ runtime = [p \in Calls |-> "none"]
  /\ port = [p \in Calls |-> 0]
  /\ retryCount = [p \in Calls |-> 0]
  /\ delivered = [p \in Calls |-> 0]
  /\ sleeps = [p \in Calls |-> 0]
  /\ delay = [p \in Calls |-> 0]
  /\ hookReq = [p \in Calls |-> NoRequest]
  /\ hookError = [p \in Calls |-> NoError]
  /\ matches = [p \in Calls |-> "unread"]
  /\ logged = [p \in Calls |-> FALSE]
  /\ runOutcome = [p \in Calls |-> "none"]
  /\ diagnostic = [p \in Calls |-> {}]
  /\ result = [p \in Calls |-> "pending"]
  /\ error = [p \in Calls |-> "none"]

Init ==
  /\ InitProgram
  /\ naming = NoNaming
  /\ scan = NoScan

Spawn(p, c) == issued' = [issued EXCEPT ![p][c] = @ + 1]
Return(p) == /\ pc' = [pc EXCEPT ![p] = "done"]
             /\ result' = [result EXCEPT ![p] = "returned"]
             /\ error' = error
Raise(p, msg) == /\ pc' = [pc EXCEPT ![p] = "done"]
                 /\ result' = [result EXCEPT ![p] = "raised"]
                 /\ error' = [error EXCEPT ![p] = msg]
Suspend(p, at) == /\ pc' = [pc EXCEPT ![p] = at]
                  /\ UNCHANGED << result, error >>

(* ---- #initialize ---- *)
\* the test of #initialized left out
initializeUncached(p) ==
  /\ Spawn(p, "criu")
  /\ criuRuns' = criuRuns + 1
  /\ probe' = [probe EXCEPT ![p] = "probing"]
  /\ Suspend(p, "criu")
  /\ UNCHANGED << initRet, globals, checkpointRuns, fullProbes >>

\* entry of #initialize up to its first await (or its return when cached)
initialize(p) ==
  IF initialized
  THEN /\ initRet' = [initRet EXCEPT ![p] =
                        getInitializeReturn(canCheckpoint, forceSimulate)]
       /\ probe' = [probe EXCEPT ![p] = "cached"]
       /\ Suspend(p, "initialized")
       /\ UNCHANGED << issued, globals, counters >>
  ELSE /\ Spawn(p, "criu")
       /\ criuRuns' = criuRuns + 1
       /\ probe' = [probe EXCEPT ![p] = "probing"]
       /\ Suspend(p, "criu")
       /\ UNCHANGED << initRet, globals, checkpointRuns, fullProbes >>

\* the coordinator calls operation o: the call runs into #initialize
Call(p, o) ==
  /\ pc[p] = "idle"
  /\ \E id \in Ids : runId' = [runId EXCEPT ![p] = id]
  /\ op' = [op EXCEPT ![p] = o]
  /\ initialize(p)
  /\ UNCHANGED << forceSimulate, containerName, runtime, hookVars, runVars >>

\* the five operations of TaskOperations
index(p) == Call(p, "index")
create(p) == Call(p, "create")
restore(p) == Call(p, "restore")
delete(p) == Call(p, "delete")
get(p) == Call(p, "get")

\* `criu --version` settled
criuDone(p) ==
  /\ pc[p] = "criu"
  /\ \E ok \in BOOLEAN :
       IF ok
       THEN /\ Spawn(p, "checkpoint")
            /\ checkpointRuns' = checkpointRuns + 1
            /\ Suspend(p, "checkpoint")
            /\ UNCHANGED << globals, initRet, probe >>
       ELSE /\ canCheckpoint' = FALSE
            /\ initialized' = TRUE
            /\ initRet' = [initRet EXCEPT ![p] =
                             getInitializeReturn(canCheckpoint', forceSimulate)]
            /\ probe' = [probe EXCEPT ![p] = "criuFailed"]
            /\ Suspend(p, "initialized")
            /\ UNCHANGED << issued, checkpointRuns >>
  /\ UNCHANGED << forceSimulate, criuRuns, fullProbes, op, runId, containerName, runtime, hookVars,
                  runVars >>

\* the failure of `docker checkpoint` ignored
checkpointDoneOptimistic(p) ==
  /\ pc[p] = "checkpoint"
  /\ \E ok \in BOOLEAN :
       /\ canCheckpoint' = TRUE
       /\ initialized' = TRUE
       /\ initRet' = [initRet EXCEPT ![p] =
                        getInitializeReturn(canCheckpoint', forceSimulate)]
       /\ probe' = [probe EXCEPT ![p] =
                      IF ok THEN "full" ELSE "checkpointFailed"]
       /\ fullProbes' = IF ok THEN fullProbes + 1 ELSE fullProbes
       /\ Suspend(p, "initialized")
  /\ UNCHANGED << forceSimulate, criuRuns, checkpointRuns, op, runId,
                  containerName, issued, runtime,
                  hookVars, runVars >>

\* `docker checkpoint` settled
checkpointDone(p) ==
  /\ pc[p] = "checkpoint"
  /\ \E ok \in BOOLEAN :
       /\ canCheckpoint' = ok
       /\ initialized' = TRUE
       /\ initRet' = [initRet EXCEPT ![p] =
                        getInitializeReturn(canCheckpoint', forceSimulate)]
       /\ probe' = [probe EXCEPT ![p] =
                      IF ok THEN "full" ELSE "checkpointFailed"]
       /\ fullProbes' = IF ok THEN fullProbes + 1 ELSE fullProbes
       /\ Suspend(p, "initialized")
  /\ UNCHANGED << forceSimulate, criuRuns, checkpointRuns, op, runId,
                  containerName, issued, runtime,
                  hookVars, runVars >>

(* ---- index, create ---- *)
\* index / create resumed after `await this.#initialize()`: `docker run`
dockerRun(p) ==
  /\ pc[p] = "initialized"
  /\ op[p] \in { "index", "create" }
  /\ containerName' = [containerName EXCEPT ![p] =
       IF op[p] = "index" THEN getIndexContainerName(runId[p])
       ELSE getRunContainerName(runId[p])]
  /\ Spawn(p, "run")
  /\ Suspend(p, "run")
  /\ UNCHANGED << globals, counters, forceSimulate, op, runId, initRet, probe, runtime,
                  hookVars, runVars >>

\* what `docker run` can end with.  A rejection by execa is an Error that
\* carries the result properties (exitCode, escapedCommand, stdout, ...),
\* for an exit code other than 0 and for a process that could not be
\* spawned alike; anything else thrown is some other value.
RunOutcomes == { "ok", "nonzero", "spawnFailed", "thrown" }
ExecaError ==
  [isObject |-> TRUE, isNull |-> FALSE,
   keys |-> { "message", "exitCode", "escapedCommand", "stdout", "stderr" }]
OtherThrown ==
  { [isObject |-> TRUE, isNull |-> FALSE, keys |-> { "message" }],
    [isObject |-> TRUE, isNull |-> TRUE, keys |-> {}],
    [isObject |-> FALSE, isNull |-> FALSE, keys |-> {}] }
thrownBy(outcome) ==
  IF outcome \in { "nonzero", "spawnFailed" } THEN { ExecaError } ELSE OtherThrown

\* the property name misspelt
isExecaChildProcessMisspelt(maybeExeca) ==
  maybeExeca.isObject /\ ~maybeExeca.isNull /\ "escapedcommand" \in maybeExeca.keys

\* isExecaChildProcess(maybeExeca)
isExecaChildProcess(maybeExeca) ==
  maybeExeca.isObject /\ ~maybeExeca.isNull /\ "escapedCommand" \in maybeExeca.keys

\* logger.error("Index failed:" / "Create failed:", { opts, exitCode, ... })
failureDiagnostic(err) ==
  { "opts" } \cup ({ "exitCode", "escapedCommand", "stdout", "stderr" } \cap err.keys)

\* `docker run` settled
dockerRunDone(p) ==
  /\ pc[p] = "run"
  /\ \E outcome \in RunOutcomes :
       /\ runOutcome' = [runOutcome EXCEPT ![p] = outcome]
       /\ IF outcome = "ok"
          THEN Return(p) /\ UNCHANGED << logged, diagnostic >>
          ELSE \E err \in thrownBy(outcome) :
                 IF ~isExecaChildProcess(err)
                 THEN Raise(p, "docker run error") /\ UNCHANGED << logged, diagnostic >>
                 ELSE /\ Return(p)
                      /\ logged' = [logged EXCEPT ![p] = TRUE]
                      /\ diagnostic' = [diagnostic EXCEPT ![p] = failureDiagnostic(err)]
  /\ UNCHANGED << globals, counters, forceSimulate, op, runId, containerName, initRet,
                  probe, issued, runtime, hookVars >>

(* ---- get ---- *)
getNoop(p) ==
  /\ pc[p] = "initialized"
  /\ op[p] = "get"
  /\ Return(p)
  /\ UNCHANGED << globals, counters, forceSimulate, op, runId, containerName, initRet,
                  probe, issued, runtime, hookVars, runVars >>

(* ---- the lifecycle hook dispatcher ---- *)
\* #sendPostStart / #sendPreStop up to the await in #getHttpServerPort
sendHook(p) ==
  /\ Spawn(p, "logs")
  /\ Suspend(p, "logs")

\* the catch block of #sendPostStart / #sendPreStop
sendFailed(p) ==
  IF sendRaises(op[p], TRUE) THEN Raise(p, sendMessage(op[p])) ELSE Return(p)

\* execa("docker", ["exec", containerName, "busybox", "wget", ...])
lifecycleRequest(p, prt) ==
  /\ Spawn(p, "exec")
  /\ hookReq' = [hookReq EXCEPT ![p] =
                   [container |-> containerName[p], port |-> prt,
                    type |-> hookType(op[p]), cause |-> hookCause(op[p])]]

\* `docker logs` settled: the rest of #getHttpServerPort, then the first
\* attempt of #runLifecycleCommand
logsDone(p) ==
  /\ pc[p] = "logs"
  /\ \/ \* the command failed
        /\ sendFailed(p)
        /\ UNCHANGED << issued, hookVars >>
     \/ \E stdout \in LogSnapshots :
          LET prt == ExtractPort(stdout) IN
          /\ matches' = [matches EXCEPT ![p] = matchOf(stdout)]
          /\ IF PortMissing(prt)
             THEN /\ sendFailed(p)
                  /\ UNCHANGED << issued, port, retryCount, delivered, sleeps, delay,
                                  hookReq, hookError >>
             ELSE /\ port' = [port EXCEPT ![p] = prt]
                  /\ lifecycleRequest(p, prt)
                  /\ Suspend(p, "exec")
                  /\ UNCHANGED << retryCount, delivered, sleeps, delay, hookError >>
  /\ UNCHANGED << globals, counters, forceSimulate, op, runId, containerName, initRet,
                  probe, runtime, runVars >>

\* the lifecycle request settled: #runLifecycleCommand's return or catch
hookDone(p) ==
  /\ pc[p] = "exec"
  /\ \E ok \in BOOLEAN :
       IF ok
       THEN /\ delivered' = [delivered EXCEPT ![p] = @ + 1]
            /\ Return(p)
            /\ UNCHANGED << sleeps, delay, hookError >>
       ELSE IF shouldRetry(hookType(op[p]), retryCount[p])
            THEN /\ \E r \in RandomUnit :
                      delay' = [delay EXCEPT ![p] =
                        exponentialBackoff(retryCount[p] + 1, 2, 50, 1150, 50, r)]
                 /\ sleeps' = [sleeps EXCEPT ![p] = @ + 1]
                 /\ Suspend(p, "backoff")
                 /\ UNCHANGED << delivered, hookError >>
            ELSE /\ hookError' = [hookError EXCEPT ![p] =
                                    finalError(hookType(op[p]), retryCount[p])]
                 /\ sendFailed(p)
                 /\ UNCHANGED << delivered, sleeps, delay >>
  /\ UNCHANGED << globals, counters, forceSimulate, op, runId, containerName, initRet,
                  probe, issued, runtime, port, retryCount, hookReq, matches, runVars >>

\* the retry reading the logs again for its port
backoffDoneRereads(p) ==
  /\ pc[p] = "backoff"
  /\ retryCount' = [retryCount EXCEPT ![p] = @ + 1]
  /\ delay' = [delay EXCEPT ![p] = 0]
  /\ issued' = [issued EXCEPT ![p]["logs"] = @ + 1, ![p]["exec"] = @ + 1]
  /\ hookReq' = [hookReq EXCEPT ![p] =
                   [container |-> containerName[p], port |-> port[p],
                    type |-> hookType(op[p]), cause |-> hookCause(op[p])]]
  /\ Suspend(p, "exec")
  /\ UNCHANGED << globals, counters, forceSimulate, op, runId, containerName, initRet,
                  probe, runtime, port, delivered, sleeps, hookError, matches, runVars >>

\* the backoff timer fired: #runLifecycleCommand(..., retryCount + 1)
backoffDone(p) ==
  /\ pc[p] = "backoff"
  /\ retryCount' = [retryCount EXCEPT ![p] = @ + 1]
  /\ delay' = [delay EXCEPT ![p] = 0]
  /\ lifecycleRequest(p, port[p])
  /\ Suspend(p, "exec")
  /\ UNCHANGED << globals, counters, forceSimulate, op, runId, containerName, initRet,
                  probe, runtime, port, delivered, sleeps, hookError, matches, runVars >>

(* ---- restore ---- *)
\* restore resumed after `await this.#initialize()`: the branch and the
\* runtime command
restoreBranch(p) ==
  /\ pc[p] = "initialized"
  /\ op[p] = "restore"
  /\ containerName' = [containerName EXCEPT ![p] = getRunContainerName(runId[p])]
  /\ Spawn(p, restoreCommand(restoreSimulates(canCheckpoint, forceSimulate)))
  /\ runtime' = [runtime EXCEPT ![p] = "pending"]
  /\ Suspend(p, "runtime")
  /\ UNCHANGED << globals, counters, forceSimulate, op, runId, initRet, probe, hookVars,
                  runVars >>

\* `docker unpause` / `docker start --checkpoint` settled
restoreRuntimeDone(p) ==
  /\ pc[p] = "runtime"
  /\ \E outcome \in { "ok", "nonzero", "rejected" } :
       /\ runtime' = [runtime EXCEPT ![p] = IF outcome = "ok" THEN "ok" ELSE "failed"]
       /\ IF outcome = "rejected"
          THEN Raise(p, "command rejected") /\ UNCHANGED issued
          ELSE IF restoreContinues(outcome)
               THEN sendHook(p)
               ELSE /\ Raise(p, IF issued[p]["unpause"] > 0
                                THEN "docker unpause command failed"
                                ELSE "docker start command failed")
                    /\ UNCHANGED issued
  /\ UNCHANGED << globals, counters, forceSimulate, op, runId, containerName, initRet,
                  probe, hookVars, runVars >>

(* ---- delete ---- *)
\* delete removing the container before it signals it
deleteRemoves(p) ==
  /\ pc[p] = "initialized"
  /\ op[p] = "delete"
  /\ containerName' = [containerName EXCEPT ![p] = getRunContainerName(runId[p])]
  /\ issued' = [issued EXCEPT ![p]["rm"] = @ + 1, ![p]["logs"] = @ + 1]
  /\ Suspend(p, "logs")
  /\ UNCHANGED << globals, counters, forceSimulate, op, runId, initRet, probe, runtime,
                  hookVars, runVars >>

\* delete resumed after `await this.#initialize()`
deleteSendPreStop(p) ==
  /\ pc[p] = "initialized"
  /\ op[p] = "delete"
  /\ containerName' = [containerName EXCEPT ![p] = getRunContainerName(runId[p])]
  /\ sendHook(p)
  /\ UNCHANGED << globals, counters, forceSimulate, op, runId, initRet, probe, runtime,
                  hookVars, runVars >>

(* ---- the caller ---- *)
\* the result or the error of the call reaches the coordinator: the call is
\* over and its locals are gone
settle(p) ==
  /\ pc[p] = "done"
  /\ op' = [op EXCEPT ![p] = "none"]
  /\ runId' = [runId EXCEPT ![p] = <<>>]
  /\ containerName' = [containerName EXCEPT ![p] = <<>>]
  /\ pc' = [pc EXCEPT ![p] = "idle"]
  /\ initRet' = [initRet EXCEPT ![p] = NoReturn]
  /\ probe' = [probe EXCEPT ![p] = "none"]
  /\ issued' = [issued EXCEPT ![p] = [c \in Commands |-> 0]]
  /\ runtime' = [runtime EXCEPT ![p] = "none"]
  /\ port' = [port EXCEPT ![p] = 0]
  /\ retryCount' = [retryCount EXCEPT ![p] = 0]
  /\ delivered' = [delivered EXCEPT ![p] = 0]
  /\ sleeps' = [sleeps EXCEPT ![p] = 0]
  /\ delay' = [delay EXCEPT ![p] = 0]
  /\ hookReq' = [hookReq EXCEPT ![p] = NoRequest]
  /\ hookError' = [hookError EXCEPT ![p] = NoError]
  /\ matches' = [matches EXCEPT ![p] = "unread"]
  /\ logged' = [logged EXCEPT ![p] = FALSE]
  /\ runOutcome' = [runOutcome EXCEPT ![p] = "none"]
  /\ diagnostic' = [diagnostic EXCEPT ![p] = {}]
  /\ result' = [result EXCEPT ![p] = "pending"]
  /\ error' = [error EXCEPT ![p] = "none"]
  /\ UNCHANGED << globals, counters, forceSimulate >>

Next ==
  /\ UNCHANGED pureVars
  /\ \E p \in Calls :
       \/ index(p) \/ create(p) \/ restore(p) \/ delete(p) \/ get(p)
       \/ criuDone(p) \/ checkpointDone(p)
       \/ dockerRun(p) \/ dockerRunDone(p)
       \/ getNoop(p)
       \/ restoreBranch(p) \/ restoreRuntimeDone(p)
       \/ deleteSendPreStop(p)
       \/ logsDone(p) \/ hookDone(p) \/ backoffDone(p)
       \/ settle(p)

Spec == Init /\ [][Next]_vars

(* ---- the operations on Node's event loop ---- *)
\* no call stands between the return of its #initialize and the statement
\* after `await this.#initialize()`: the microtask queue is empty
Drained == \A q \in Calls : pc[q] # "initialized"

\* The settlement of a command, the firing of a timer and the arrival of a
\* call are callbacks of the event loop, and the continuation of
\* `await this.#initialize()` is a microtask: it runs before the next
\* callback does.
NextLoop ==
  /\ UNCHANGED pureVars
  /\ \E p \in Calls :
       \/ /\ Drained
          /\ \/ index(p) \/ create(p) \/ restore(p) \/ delete(p) \/ get(p)
             \/ criuDone(p) \/ checkpointDone(p)
             \/ dockerRunDone(p)
             \/ restoreRuntimeDone(p)
             \/ logsDone(p) \/ hookDone(p) \/ backoffDone(p)
             \/ settle(p)
       \/ dockerRun(p)
       \/ getNoop(p)
       \/ restoreBranch(p)
       \/ deleteSendPreStop(p)

SpecLoop == Init /\ [][NextLoop]_vars

(* ---- the pure functions on their own ---- *)
programVars ==
  << initialized, canCheckpoint, forceSimulate, criuRuns, checkpointRuns,
     fullProbes, op, runId, containerName, pc, initRet, probe, issued, runtime,
     hookVars, runVars, result, error >>

\* container naming applied to any two identifiers of any two kinds
InitNames ==
  /\ InitProgram
  /\ scan = NoScan
  /\ \E ka, kb \in { "index", "run" } : \E a, b \in Suffixes :
       naming = [state |-> "input", ka |-> ka, a |-> a, kb |-> kb, b |-> b,
                 na |-> <<>>, nb |-> <<>>]

nameContainers ==
  /\ naming.state = "input"
  /\ naming' = [naming EXCEPT !.state = "named",
                               !.na = containerNameOf(naming.ka, naming.a),
                               !.nb = containerNameOf(naming.kb, naming.b)]
  /\ UNCHANGED << programVars, scan >>

NextNames == nameContainers

SpecNames == InitNames /\ [][NextNames]_vars

\* port discovery applied to any log
InitScan ==
  /\ InitProgram
  /\ naming = NoNaming
  /\ \E stdout \in ScanLogs :
       scan = [state |-> "input", stdout |-> stdout, raised |-> FALSE, port |-> 0]

scanLog ==
  /\ scan.state = "input"
  /\ scan' = [scan EXCEPT !.state = "scanned",
                           !.raised = getHttpServerPort(scan.stdout).raised,
                           !.port = getHttpServerPort(scan.stdout).port]
  /\ UNCHANGED << programVars, naming >>

NextScan == scanLog

SpecScan == InitScan /\ [][NextScan]_vars

TypeOK ==
  /\ initialized \in BOOLEAN /\ canCheckpoint \in BOOLEAN
  /\ \A p \in Calls :
       /\ op[p] \in Ops \cup { "none" }
       /\ result[p] \in { "pending", "returned", "raised" }
       /\ retryCount[p] \in 0..6
       /\ matches[p] \in { "unread", "null", "found" }

(***************************************************************************)
(* Properties                                                              *)
(***************************************************************************)
Restores == { p \in Calls : op[p] = "restore" }
Deletes == { p \in Calls : op[p] = "delete" }

\* C1: the detection sequence (`criu --version`, then `docker checkpoint`)
\* runs at most once in total, however many calls enter #initialize before
\* one of them has completed it.
C1_ProbeRunsOnce == criuRuns <= 1 /\ checkpointRuns <= 1

\* C2: every call of #initialize returns the same {canCheckpoint,
\* willSimulate} value as every other call.
C2_SameCachedResult ==
  \A p, q \in Calls :
    (initRet[p].set /\ initRet[q].set) => initRet[p] = initRet[q]

\* C3: a restore that returned has delivered exactly one successful
\* PostStart request (cause=restore) to its run container, and a PostStart
\* request is only ever issued when the runtime command of that call has
\* already reported success.
C3_RestorePostStart ==
  /\ [](\A p \in Restores :
          /\ delivered[p] <= 1
          /\ result[p] = "returned" =>
               /\ delivered[p] = 1
               /\ runtime[p] = "ok"
               /\ hookReq[p] = [container |-> getRunContainerName(runId[p]),
                                port |-> port[p], type |-> "postStart",
                                cause |-> "restore"])
  /\ [][\A p \in Calls :
          (op[p] = "restore" /\ issued'[p]["exec"] > issued[p]["exec"])
            => runtime[p] = "ok"]_vars

C3_Witness ==
  \E p \in Restores :
    result[p] = "returned" /\ issued[p]["exec"] = 3 /\ runtime[p] = "ok"

\* C4: a restore issues exactly one runtime command, `docker unpause` when
\* willSimulate (not canCheckpoint, or forceSimulate) holds where it
\* branches and `docker start --checkpoint` when it does not; no other
\* operation issues either.
C4_RestoreCommand ==
  /\ [](\A p \in Calls :
          /\ issued[p]["unpause"] + issued[p]["start"] <= 1
          /\ op[p] # "restore" => issued[p]["unpause"] + issued[p]["start"] = 0
          /\ runtime[p] # "none" => issued[p]["unpause"] + issued[p]["start"] = 1)
  /\ [][\A p \in Calls :
          /\ issued'[p]["start"] > issued[p]["start"]
               => ~((~canCheckpoint) \/ forceSimulate)
          /\ issued'[p]["unpause"] > issued[p]["unpause"]
               => ((~canCheckpoint) \/ forceSimulate)]_vars

C4_Witness ==
  \E p, q \in Restores :
    issued[p]["start"] = 1 /\ issued[q]["unpause"] = 1 /\ ~forceSimulate

\* C5: in every value #initialize returns, willSimulate is
\* (not canCheckpoint) or forceSimulate: true after a failed detection, true
\* whenever forceSimulate is set, and false only when both probe commands
\* succeeded and forceSimulate is not set.
C5_WillSimulate ==
  \A p \in Calls :
    initRet[p].set =>
      /\ initRet[p].willSimulate = ((~initRet[p].canCheckpoint) \/ forceSimulate)
      /\ probe[p] \in { "criuFailed", "checkpointFailed" } => initRet[p].willSimulate
      /\ forceSimulate => initRet[p].willSimulate
      /\ ~initRet[p].willSimulate => (~forceSimulate /\ fullProbes > 0)
      /\ (probe[p] = "full" /\ ~forceSimulate) => ~initRet[p].willSimulate

C5_Witness ==
  \E p, q \in Calls :
    /\ initRet[p].set /\ ~initRet[p].willSimulate
    /\ initRet[q].set /\ initRet[q].willSimulate /\ probe[q] = "criuFailed"

\* C6 as stated: every delete call issues exactly one PreStop request
\* against its run container before it ends, and raises when the delivery
\* or the port discovery fails.
C6_EveryDeleteOnePreStop ==
  \A p \in Deletes :
    /\ issued[p]["exec"] <= 1
    /\ pc[p] = "done" => issued[p]["exec"] = 1
    /\ (pc[p] = "done" /\ delivered[p] = 0) => result[p] = "raised"

\* C6 as amended: a delete call issues at most one PreStop request
\* (cause=terminate, container task-run-<runId>): exactly one once port
\* discovery has succeeded and none when it failed; a delete that returns
\* normally has had that one request delivered; when the delivery or the
\* port discovery fails, delete raises.
C6_DeletePreStop ==
  \A p \in Deletes :
    /\ issued[p]["exec"] <= 1
    /\ port[p] # 0 =>
         /\ issued[p]["exec"] = 1
         /\ hookReq[p] = [container |-> getRunContainerName(runId[p]),
                          port |-> port[p], type |-> "preStop",
                          cause |-> "terminate"]
    /\ port[p] = 0 => (issued[p]["exec"] = 0 /\ hookReq[p] = NoRequest)
    /\ result[p] = "returned" => (issued[p]["exec"] = 1 /\ delivered[p] = 1)
    /\ (pc[p] = "done" /\ delivered[p] = 0) =>
         (result[p] = "raised" /\ error[p] = "preStop command failed")

C6_Witness ==
  \E p, q \in Deletes :
    /\ result[p] = "returned" /\ issued[p]["exec"] = 1
    /\ result[q] = "raised" /\ issued[q]["exec"] = 0 /\ issued[q]["logs"] = 1

\* C7: PostStart delivery makes at most 7 attempts (6 retries), stops at
\* the first success, succeeds when the 7th attempt does, and raises the
\* terminal error only after 7 failed attempts.
C7_PostStartRetries ==
  \A p \in Restores :
    /\ issued[p]["exec"] <= 7
    /\ retryCount[p] <= 6
    /\ issued[p]["exec"] > 0 => issued[p]["exec"] = retryCount[p] + 1
    /\ sleeps[p] = retryCount[p] + (IF pc[p] = "backoff" THEN 1 ELSE 0)
    /\ delivered[p] = 1 => (pc[p] = "done" /\ result[p] = "returned")
    /\ hookError[p] # NoError =>
         /\ issued[p]["exec"] = 7 /\ delivered[p] = 0
         /\ result[p] = "raised"
    /\ (pc[p] = "done" /\ issued[p]["exec"] \in 1..6) => delivered[p] = 1
    /\ (pc[p] = "done" /\ issued[p]["exec"] = 7) =>
         \/ delivered[p] = 1 /\ result[p] = "returned"
         \/ delivered[p] = 0 /\ result[p] = "raised" /\ hookError[p] # NoError

C7_Witness ==
  \E p, q \in Restores :
    /\ issued[p]["exec"] = 7 /\ delivered[p] = 1 /\ result[p] = "returned"
    /\ issued[q]["exec"] = 7 /\ delivered[q] = 0 /\ result[q] = "raised"

\* C8: the delay slept after the failed attempt with retry counter n lies
\* in [min(2^n * 50, 1150), min(2^n * 50, 1150) + 50] ms.
C8_BackoffDelay ==
  \A p \in Calls :
    pc[p] = "backoff" =>
      LET lo == Min(Pow(2, retryCount[p]) * 50, 1150)
      IN delay[p] \in lo..(lo + 50)

\* C9: a failed PreStop attempt is final: delete makes one delivery
\* attempt, never sleeps, never retries, and the failure is raised to the
\* caller of delete.
C9_PreStopNoRetry ==
  \A p \in Deletes :
    /\ sleeps[p] = 0 /\ delay[p] = 0 /\ retryCount[p] = 0
    /\ pc[p] # "backoff"
    /\ issued[p]["exec"] <= 1
    /\ hookError[p] # NoError =>
         /\ hookError[p].type = "preStop"
         /\ issued[p]["exec"] = 1 /\ delivered[p] = 0
         /\ pc[p] = "done" /\ result[p] = "raised"
    /\ (pc[p] # "exec" /\ issued[p]["exec"] = 1 /\ delivered[p] = 0) =>
         (hookError[p] # NoError /\ result[p] = "raised")

C9_Witness ==
  \E p \in Deletes :
    hookError[p].type = "preStop" /\ result[p] = "raised" /\ issued[p]["exec"] = 1

\* C10: when the runtime command of restore fails, restore raises and has
\* read no container log and issued no PostStart request.
C10_RuntimeFailure ==
  \A p \in Restores :
    runtime[p] = "failed" =>
      /\ pc[p] = "done" /\ result[p] = "raised"
      /\ issued[p]["logs"] = 0 /\ issued[p]["exec"] = 0
      /\ port[p] = 0 /\ delivered[p] = 0 /\ hookReq[p] = NoRequest

C10_Witness ==
  \E p, q \in Restores :
    /\ runtime[p] = "failed" /\ issued[p]["unpause"] = 1
    /\ runtime[q] = "failed" /\ issued[q]["start"] = 1

Launches == { p \in Calls : op[p] \in { "index", "create" } }

\* C11: when the `docker run` of index or create exits non-zero, the
\* operation logs a diagnostic with the exit code, the escaped command,
\* stdout and stderr, and returns normally.
C11_WorkloadFailureSwallowed ==
  \A p \in Launches :
    runOutcome[p] = "nonzero" =>
      /\ pc[p] = "done" /\ result[p] = "returned"
      /\ logged[p]
      /\ { "exitCode", "escapedCommand", "stdout", "stderr" } \subseteq diagnostic[p]

C11_Witness ==
  \E p, q \in Launches :
    /\ op[p] = "index" /\ runOutcome[p] = "nonzero" /\ result[p] = "returned"
    /\ op[q] = "create" /\ runOutcome[q] = "nonzero" /\ result[q] = "returned"

\* C12: when the `docker run` of index or create cannot be started at all,
\* the operation raises instead of logging and returning normally.
C12_LaunchFailurePropagates ==
  \A p \in Launches :
    runOutcome[p] = "spawnFailed" => (result[p] = "raised" /\ ~logged[p])

\* C13: the run names of two different identifiers differ, an identifier
\* always gets the same name, and an index container name never equals a
\* run container name.
C13_NamesInjective ==
  naming.state = "named" =>
    /\ (naming.ka = naming.kb /\ naming.a # naming.b) => naming.na # naming.nb
    /\ (naming.ka = naming.kb /\ naming.a = naming.b) => naming.na = naming.nb
    /\ naming.ka # naming.kb => naming.na # naming.nb
    /\ naming.ka = "run" =>
         naming.na = <<"t","a","s","k","-","r","u","n","-">> \o naming.a
    /\ naming.ka = "index" =>
         naming.na = <<"t","a","s","k","-","i","n","d","e","x","-">> \o naming.a

C13_Witness ==
  /\ naming.state = "named"
  /\ naming.ka = "index" /\ naming.kb = "run"
  /\ naming.a = <<"r", "-">> /\ naming.b = <<"r", "-">>
  /\ naming.na # naming.nb

\* the value of a string of decimal digits
RECURSIVE DecimalValue(_, _)
DecimalValue(digits, acc) ==
  IF digits = <<>> THEN acc
  ELSE DecimalValue(Tail(digits), 10 * acc + Head(digits))

\* the lines of a log that announce a port
Announcing(stdout) ==
  { i \in 1..Len(stdout) : stdout[i].listening /\ Len(stdout[i].digits) > 0 }

\* C20: port discovery returns the integer of the first line that
\* announces a port, and that value is positive; when the first such line
\* announces 0, or no line announces a port, it raises, also when a later
\* line announces a port other than 0.
C20_FirstPositivePort ==
  scan.state = "scanned" =>
    /\ ~scan.raised => scan.port > 0
    /\ Announcing(scan.stdout) = {} => scan.raised
    /\ \A i \in Announcing(scan.stdout) :
         (\A j \in Announcing(scan.stdout) : i <= j) =>
           LET v == DecimalValue(scan.stdout[i].digits, 0)
           IN /\ v = 0 => scan.raised
              /\ v > 0 => (~scan.raised /\ scan.port = v)

C20_Witness ==
  /\ scan.state = "scanned" /\ scan.raised
  /\ Len(scan.stdout) = 2
  /\ scan.stdout[1] = [listening |-> TRUE, digits |-> <<0, 0>>]
  /\ scan.stdout[2] = [listening |-> TRUE, digits |-> <<4, 0>>]

\* C14: a delete call spawns nothing but the log read and the PreStop
\* request, and a get call spawns no command on a container at all; the
\* probe commands of #initialize aside.
C14_NoContainerChange ==
  \A p \in Calls :
    /\ op[p] = "delete" =>
         \A c \in Commands \ { "criu", "checkpoint", "logs", "exec" } :
           issued[p][c] = 0
    /\ op[p] = "get" =>
         \A c \in Commands \ { "criu", "checkpoint" } : issued[p][c] = 0

C14_Witness ==
  \E p, q \in Calls :
    /\ op[p] = "delete" /\ result[p] = "returned" /\ delivered[p] = 1
    /\ op[q] = "get" /\ result[q] = "returned"

\* C15: the probe fails closed and never raises: a failed `criu --version`
\* gives canCheckpoint = false and initialized = true without a
\* `docker checkpoint`; a failed `docker checkpoint` gives canCheckpoint =
\* false; canCheckpoint is true exactly when both succeeded; #initialize
\* returns a value every time.
C15_FailClosed ==
  /\ [](\A p \in Calls :
          /\ probe[p] = "criuFailed" =>
               /\ initRet[p].set /\ ~initRet[p].canCheckpoint
               /\ issued[p]["criu"] = 1 /\ issued[p]["checkpoint"] = 0
               /\ initialized
          /\ probe[p] = "checkpointFailed" =>
               /\ initRet[p].set /\ ~initRet[p].canCheckpoint
               /\ issued[p]["checkpoint"] = 1
               /\ initialized
          /\ probe[p] = "full" =>
               /\ initRet[p].set /\ initRet[p].canCheckpoint
               /\ issued[p]["criu"] = 1 /\ issued[p]["checkpoint"] = 1
               /\ initialized
          /\ pc[p] \in { "criu", "checkpoint" } =>
               (probe[p] = "probing" /\ result[p] = "pending"))
  /\ [][\A p \in Calls :
          /\ (probe[p] = "probing" /\ probe'[p] \in { "criuFailed", "checkpointFailed" })
               => (~canCheckpoint' /\ initialized')
          /\ (probe[p] = "probing" /\ probe'[p] = "full")
               => (canCheckpoint' /\ initialized')
          /\ (pc[p] \in { "criu", "checkpoint" } /\ pc'[p] # pc[p])
               => /\ result'[p] = "pending"
                  /\ pc'[p] \in { "checkpoint", "initialized" }
                  /\ pc'[p] = "initialized" => initRet'[p].set]_vars

C15_Witness ==
  \E p, q \in Calls :
    /\ probe[p] = "criuFailed" /\ pc[p] = "initialized"
    /\ probe[q] = "checkpointFailed" /\ pc[q] = "initialized"

\* C16: an operation that starts when some #initialize has completed gets
\* the cached result from its own #initialize and spawns neither
\* `criu --version` nor `docker checkpoint`.
C16_Memoized ==
  /\ [](\A p \in Calls :
          probe[p] = "cached" =>
            /\ initRet[p].set
            /\ issued[p]["criu"] = 0 /\ issued[p]["checkpoint"] = 0)
  /\ [][\A p \in Calls :
          (initialized /\ pc[p] = "idle" /\ pc'[p] # "idle") =>
            /\ probe'[p] = "cached"
            /\ initRet'[p] = [canCheckpoint |-> canCheckpoint,
                              willSimulate |-> (~canCheckpoint) \/ forceSimulate,
                              set |-> TRUE]
            /\ criuRuns' = criuRuns /\ checkpointRuns' = checkpointRuns
            /\ initialized' /\ canCheckpoint' = canCheckpoint]_vars

C16_Witness ==
  \E p, q \in Calls :
    /\ probe[p] = "cached" /\ op[p] = "restore" /\ issued[p]["start"] = 1
    /\ probe[q] = "cached" /\ op[q] = "delete" /\ pc[q] = "done"

\* C17: the port is read from one snapshot of the logs taken before the
\* first attempt: a call reads the logs at most once, every request of the
\* call goes to the port read then, and when the snapshot holds no matching
\* line the call raises with no request and no backoff sleep.
C17_SingleSnapshot ==
  /\ [](\A p \in Calls :
          /\ issued[p]["logs"] <= 1
          /\ issued[p]["exec"] > 0 =>
               /\ issued[p]["logs"] = 1
               /\ matches[p] = "found"
               /\ port[p] > 0
               /\ hookReq[p].port = port[p]
          /\ matches[p] = "null" =>
               /\ issued[p]["exec"] = 0 /\ sleeps[p] = 0 /\ delivered[p] = 0
               /\ pc[p] = "done" /\ result[p] = "raised")
  /\ [][\A p \in Calls :
          issued'[p]["exec"] > issued[p]["exec"] =>
            /\ hookReq'[p].port = port'[p]
            /\ issued[p]["exec"] > 0 =>
                 /\ port'[p] = port[p]
                 /\ issued'[p]["logs"] = issued[p]["logs"]]_vars

C17_Witness ==
  \E p, q \in Calls :
    /\ matches[p] = "null" /\ result[p] = "raised"
    /\ issued[q]["exec"] = 3 /\ sleeps[q] = 2 /\ hookReq[q].port = port[q]

\* C18: the terminal error of #runLifecycleCommand reports the number of
\* retries made: the number of backoff sleeps of the call, never a negative
\* number.
C18_RetriesReported ==
  \A p \in Calls :
    hookError[p].type # "none" =>
      /\ hookError[p].retries = sleeps[p]
      /\ hookError[p].retries >= 0

====
